---- MODULE Spec2Model ----
(***************************************************************************)
(* Cup-and-handle detector of Stock_Tracker (app/analysis/detector.py,     *)
(* preprocessing.py, patterns.py) as a state machine.                      *)
(*                                                                         *)
(* Conventions.  A pandas Series is a TLA+ sequence; Iloc(s, i) reads the  *)
(* 0-based position i, so every index below is the source's 0-based index. *)
(* Prices are positive integers.  A smoothed value is stored multiplied by *)
(* Scale(window), the least number that makes every rolling median and     *)
(* rolling mean an integer; all tests of the detector compare ratios of    *)
(* smoothed values, so they are evaluated exactly by cross-multiplying.    *)
(* A threshold of patterns.py is the fraction <<numerator, denominator>>.  *)
(* A float that may be NaN is <<>> (NaN) or <<v>>; a comparison with NaN   *)
(* is false, as in IEEE arithmetic.                                        *)
(***************************************************************************)
EXTENDS Integers, Sequences, FiniteSets, TLC

\* ------------------------------------------------------------ thresholds
\* patterns.py, CupHandleConfig
cup_width_min_ratio == <<7, 100>>
cup_width_max_ratio == <<4, 5>>
handle_width_min_ratio_total == <<3, 200>>
handle_width_max_ratio_total == <<2, 5>>
min_cup_to_handle_width_ratio == <<13, 10>>
max_cup_to_handle_width_ratio == <<4, 1>>
handle_depth_ratio_min_vs_cup == <<1, 20>>
handle_depth_ratio_max_vs_cup == <<2, 5>>
cup_min_position_min == <<1, 5>>
cup_min_position_max == <<4, 5>>
min_avg_cup_value_vs_ceiling_ratio == <<1, 40>>
max_cup_peak_above_rim == <<1, 40>>
max_handle_peak_over_ceiling == <<1, 40>>
min_cup_depth == <<3, 40>>
max_cup_depth == <<7, 10>>
min_handle_depth == <<1, 40>>
max_right_rim_drop_from_left == <<1, 25>>
max_right_rim_above_left == <<3, 50>>
breakout_tolerance == <<7, 200>>
max_breakout_extension_ratio == <<1, 20>>
min_handle_recovery_ratio == <<3, 10>>

\* detector.py: the minimum number of rows, the volatility thresholds, the
\* volatility assumed when the mean is NaN, and the three smoothing windows
MinSamples == 5
VolLow == <<1, 200>>
VolMedium == <<3, 200>>
VolDefault == <<1, 100>>
StdWindow == 5
WindowLow == 5
WindowMedium == 7
WindowHigh == 10
\* constants.py
SAMPLE_INTERVAL_MINUTES == 5
\* Python's None, for an index or a timestamp (both are >= 0)
None == -1

\* ------------------------------------------------------------ arithmetic
Num(c) == c[1]
Den(c) == c[2]
\* 1 + c and 1 - c of a fraction c
OnePlus(c) == <<Den(c) + Num(c), Den(c)>>
OneMinus(c) == <<Den(c) - Num(c), Den(c)>>
\* a < b * c, a > b * c, a <= b * c, a >= b * c for a fraction c, b of any sign
LtMul(a, b, c) == a * Den(c) < b * Num(c)
GtMul(a, b, c) == a * Den(c) > b * Num(c)
\* a / b < c and friends, for b > 0
RatioLt(a, b, c) == a * Den(c) < Num(c) * b
RatioGt(a, b, c) == a * Den(c) > Num(c) * b
RatioIn(a, b, lo, hi) == ~RatioLt(a, b, lo) /\ ~RatioGt(a, b, hi)
\* int(n * c) of Python for n >= 0
IntMul(n, c) == (n * Num(c)) \div Den(c)

Iloc(s, i) == s[i + 1]
Last(s) == s[Len(s)]
NaN == <<>>
IsNaN(x) == x = <<>>

RECURSIVE SumRange(_, _, _)
\* s.iloc[a:b].sum(), positions a .. b-1 (summed by halves)
SumRange(s, a, b) ==
    IF a >= b THEN 0
    ELSE IF b = a + 1 THEN Iloc(s, a)
    ELSE LET mid == (a + b) \div 2
         IN SumRange(s, a, mid) + SumRange(s, mid, b)

RECURSIVE IdxMin(_, _, _)
\* s.iloc[a:b+1].idxmin(): the first position of the minimum of a .. b (a <= b),
\* found by halves, the earlier half winning a tie
IdxMin(s, a, b) ==
    IF a >= b THEN a
    ELSE LET mid == (a + b) \div 2
             lo == IdxMin(s, a, mid)
             hi == IdxMin(s, mid + 1, b)
         IN IF Iloc(s, hi) < Iloc(s, lo) THEN hi ELSE lo
\* s.iloc[a:b+1].min(): NaN for an empty section
SectionMin(s, a, b) == IF a > b THEN NaN ELSE <<Iloc(s, IdxMin(s, a, b))>>

\* The greatest element of a non-empty set of integers
SetMax(S) == CHOOSE x \in S : \A y \in S : y <= x

RECURSIVE IsqrtBetween(_, _, _)
IsqrtBetween(x, lo, hi) ==
    IF lo >= hi THEN lo
    ELSE LET mid == (lo + hi + 1) \div 2
         IN IF mid * mid <= x THEN IsqrtBetween(x, mid, hi)
            ELSE IsqrtBetween(x, lo, mid - 1)
\* floor of the square root, for 0 <= x < 2^31
Isqrt(x) == IsqrtBetween(x, 0, 46340)

\* ------------------------------------------------------------ smoothing
\* pandas' centred fixed window of width w at position i of n values:
\* positions WindowStart .. WindowEnd - 1, clipped to the series
WindowOffset(w) == (w - 1) \div 2
Clip(x, lo, hi) == IF x < lo THEN lo ELSE IF x > hi THEN hi ELSE x
WindowStart(i, w, n) == Clip(i + 1 + WindowOffset(w) - w, 0, n)
WindowEnd(i, w, n) == Clip(i + 1 + WindowOffset(w), 0, n)

\* The r-th smallest (r = 1 ..) of positions a .. b-1 of s
RankValue(s, a, b, r) ==
    CHOOSE v \in {Iloc(s, j) : j \in a..(b - 1)} :
        /\ Cardinality({j \in a..(b - 1) : Iloc(s, j) < v}) < r
        /\ Cardinality({j \in a..(b - 1) : Iloc(s, j) <= v}) >= r

\* Twice the median of positions a .. b-1 of s (min_periods = 1: a < b)
Median2(s, a, b) ==
    LET k == b - a
    IN IF k % 2 = 1 THEN 2 * RankValue(s, a, b, (k + 1) \div 2)
       ELSE RankValue(s, a, b, k \div 2) + RankValue(s, a, b, k \div 2 + 1)

\* The factor every smoothed value is multiplied by: 2 (the median of an even
\* count) times the least common multiple of the window sizes 1 .. window
Scale(window) ==
    IF window <= 5 THEN 120 ELSE IF window <= 7 THEN 840 ELSE 5040

\* prices.rolling(window, min_periods=1, center=True).median(), times 2
RollingMedian2(prices, window) ==
    LET n == Len(prices)
    IN [k \in 1..n |->
            Median2(prices, WindowStart(k - 1, window, n), WindowEnd(k - 1, window, n))]

\* median.rolling(window, min_periods=1, center=True).mean(), times Scale(window)
RollingMean_FullWindow(median2, window) ==
    LET n == Len(median2)
        half == Scale(window) \div 2
    IN [k \in 1..n |->
            LET a == WindowStart(k - 1, window, n)
                b == WindowEnd(k - 1, window, n)
            IN (SumRange(median2, a, b) * half) \div window]
RollingMean(median2, window) ==
    LET n == Len(median2)
        half == Scale(window) \div 2
    IN [k \in 1..n |->
            LET a == WindowStart(k - 1, window, n)
                b == WindowEnd(k - 1, window, n)
            IN (SumRange(median2, a, b) * half) \div (b - a)]

smooth_prices(prices, window) == RollingMean(RollingMedian2(prices, window), window)

\* ------------------------------------------------------------ parameter selection
\* Percentage changes and their standard deviations are fixed-point numbers
\* with four decimal digits
PctScale == 10 ^ 4

\* prices.pct_change() at position i >= 1, in units of 1/PctScale
PctChange(prices, i) ==
    ((Iloc(prices, i) - Iloc(prices, i - 1)) * PctScale) \div Iloc(prices, i - 1)

\* .rolling(window=5).std() at position k (sample standard deviation of the
\* changes at k-4 .. k; defined from position 5 on, position 0 being NaN)
RollingStd(prices, k) ==
    LET xs == [j \in 1..StdWindow |-> PctChange(prices, k - StdWindow + j)]
        s1 == SumRange(xs, 0, StdWindow)
        s2 == SumRange([j \in 1..StdWindow |-> xs[j] * xs[j]], 0, StdWindow)
    IN Isqrt((StdWindow * s2 - s1 * s1) \div (StdWindow * (StdWindow - 1)))

\* The smoothing window chosen from the volatility of the raw prices
auto_adjust_params(prices) ==
    LET n == Len(prices)
        count == IF n > StdWindow THEN n - StdWindow ELSE 0
        total == SumRange([k \in 1..count |-> RollingStd(prices, StdWindow + k - 1)],
                          0, count)
        \* mean < threshold, with the NaN mean of no window replaced by 0.01
        below(t) == IF count = 0 THEN Num(VolDefault) * Den(t) < Num(t) * Den(VolDefault)
                    ELSE total * Den(t) < Num(t) * PctScale * count
    IN IF below(VolLow) THEN WindowLow
       ELSE IF below(VolMedium) THEN WindowMedium
       ELSE WindowHigh

\* ------------------------------------------------------------ handle checks
\* argrelextrema(section.values, np.greater) over positions a .. b of s, as
\* positions of s: strictly greater than both neighbours, a neighbour outside
\* the section being the end sample itself (mode = 'clip')
StrictLocalMaxima(s, a, b) ==
    {j \in a..b : /\ Iloc(s, j) > Iloc(s, Clip(j + 1, a, b))
                  /\ Iloc(s, j) > Iloc(s, Clip(j - 1, a, b))}

\* True when a local maximum strictly inside the section a .. b exceeds ceiling * (1 + c)
PeakExceeds(s, a, b, ceiling, c) ==
    LET local_maxima_idx == StrictLocalMaxima(s, a, b)
    IN /\ local_maxima_idx # {}
       /\ GtMul(SetMax({Iloc(s, j) : j \in local_maxima_idx}), ceiling, OnePlus(c))

passes_handle_checks(smoothed, right_rim_idx) ==
    LET n == Len(smoothed)
        current_price == Last(smoothed)
        handle_ceiling == Iloc(smoothed, right_rim_idx)
        \* middle_handle = smoothed.iloc[right_rim_idx:].iloc[1:-1]
        mid_lo == right_rim_idx + 1
        mid_hi == n - 2
        handle_min == SectionMin(smoothed, mid_lo, mid_hi)
        handle_width == n - right_rim_idx
    IN /\ ~LtMul(current_price, handle_ceiling, OneMinus(breakout_tolerance))
       /\ ~GtMul(current_price, handle_ceiling, OnePlus(max_breakout_extension_ratio))
       /\ ~PeakExceeds(smoothed, mid_lo, mid_hi, handle_ceiling, max_handle_peak_over_ceiling)
       /\ ~(/\ ~IsNaN(handle_min)
             /\ RatioLt(handle_ceiling - handle_min[1], handle_ceiling, min_handle_depth))
       /\ ~(\/ handle_width < IntMul(n, handle_width_min_ratio_total)
             \/ handle_width > IntMul(n, handle_width_max_ratio_total))
       /\ ~(/\ ~IsNaN(handle_min)
             /\ LtMul(current_price - handle_min[1], handle_ceiling - handle_min[1],
                      min_handle_recovery_ratio))

\* ------------------------------------------------------------ validator
\* The first of the eight checks the pair fails, 0 when it passes them all
FailedCheck(smoothed, left_rim_idx, right_rim_idx) ==
    LET n == Len(smoothed)
        \* middle_cup = positions left+1 .. right-1, middle_handle = right+1 .. n-2
        cup_ceiling == IF Iloc(smoothed, left_rim_idx) < Iloc(smoothed, right_rim_idx)
                       THEN Iloc(smoothed, left_rim_idx) ELSE Iloc(smoothed, right_rim_idx)
        min_pos == IdxMin(smoothed, left_rim_idx + 1, right_rim_idx - 1)
        cup_min == Iloc(smoothed, min_pos)
        handle_min == SectionMin(smoothed, right_rim_idx + 1, n - 2)
        cup_width == right_rim_idx - left_rim_idx
        handle_width == n - right_rim_idx
        cup_depth == cup_ceiling - cup_min
        handle_ceiling == Iloc(smoothed, right_rim_idx)
        count == right_rim_idx - left_rim_idx - 1
        total == SumRange(smoothed, left_rim_idx + 1, right_rim_idx)
    IN IF PeakExceeds(smoothed, left_rim_idx + 1, right_rim_idx - 1, cup_ceiling,
                      max_cup_peak_above_rim) THEN 1
       ELSE IF RatioLt(cup_depth, cup_ceiling, min_cup_depth) THEN 2
       ELSE IF ~RatioIn(cup_width, n, cup_width_min_ratio, cup_width_max_ratio) THEN 3
       ELSE IF ~RatioIn(cup_width, handle_width, min_cup_to_handle_width_ratio,
                        max_cup_to_handle_width_ratio) THEN 4
       ELSE IF \/ RatioLt(cup_depth, cup_ceiling, min_cup_depth)
               \/ RatioGt(cup_depth, cup_ceiling, max_cup_depth) THEN 5
       \* handle_depth / cup_depth is NaN when the handle has no interior sample
       \* (cup_depth > 0 here, by check 2)
       ELSE IF \/ IsNaN(handle_min)
               \/ ~RatioIn(handle_ceiling - handle_min[1], cup_depth,
                           handle_depth_ratio_min_vs_cup, handle_depth_ratio_max_vs_cup)
            THEN 6
       ELSE IF ~RatioIn(min_pos - left_rim_idx, right_rim_idx - left_rim_idx,
                        cup_min_position_min, cup_min_position_max) THEN 7
       \* (cup_ceiling - mean(middle_cup)) / cup_ceiling < min_avg...
       ELSE IF RatioLt(cup_ceiling * count - total, cup_ceiling * count,
                       min_avg_cup_value_vs_ceiling_ratio) THEN 8
       ELSE 0

\* Mutant: the handle trough is looked up in the cup section
validate_full_pattern_WrongSection(smoothed, left_rim_idx, right_rim_idx) ==
    [is_valid |-> FailedCheck(smoothed, left_rim_idx, right_rim_idx) = 0,
     cup_section |-> <<left_rim_idx, right_rim_idx>>,
     handle_section |-> <<right_rim_idx, Len(smoothed) - 1>>,
     left_min_idx |-> IdxMin(smoothed, left_rim_idx, right_rim_idx),
     right_min_idx |-> IdxMin(smoothed, left_rim_idx, right_rim_idx)]

\* Mutant: the verdict is inverted
validate_full_pattern_Inverted(smoothed, left_rim_idx, right_rim_idx) ==
    [is_valid |-> FailedCheck(smoothed, left_rim_idx, right_rim_idx) # 0,
     cup_section |-> <<left_rim_idx, right_rim_idx>>,
     handle_section |-> <<right_rim_idx, Len(smoothed) - 1>>,
     left_min_idx |-> IdxMin(smoothed, left_rim_idx, right_rim_idx),
     right_min_idx |-> IdxMin(smoothed, right_rim_idx, Len(smoothed) - 1)]

\* (is_valid, pattern_data): pattern_data is built before the checks and is
\* returned on every path
validate_full_pattern(smoothed, left_rim_idx, right_rim_idx) ==
    [is_valid |-> FailedCheck(smoothed, left_rim_idx, right_rim_idx) = 0,
     cup_section |-> <<left_rim_idx, right_rim_idx>>,
     handle_section |-> <<right_rim_idx, Len(smoothed) - 1>>,
     left_min_idx |-> IdxMin(smoothed, left_rim_idx, right_rim_idx),
     right_min_idx |-> IdxMin(smoothed, right_rim_idx, Len(smoothed) - 1)]

\* ------------------------------------------------------------ rim scanner
RECURSIVE ScanRightRim(_, _, _)
\* for i in range(i, stop, -1): the first i that passes the handle checks
ScanRightRim(smoothed, i, stop) ==
    IF i <= stop THEN None
    ELSE IF passes_handle_checks(smoothed, i) THEN i
    ELSE ScanRightRim(smoothed, i - 1, stop)

find_next_right_rim(smoothed, start) ==
    LET min_right_rim_idx == Len(smoothed) \div 2
    IN ScanRightRim(smoothed, start, min_right_rim_idx)

validate_left_rim(smoothed, right_rim_idx, left_rim_idx) ==
    LET right_val == Iloc(smoothed, right_rim_idx)
        left_val == Iloc(smoothed, left_rim_idx)
    IN /\ ~LtMul(left_val, right_val, OneMinus(max_right_rim_drop_from_left))
       /\ ~GtMul(left_val, right_val, OnePlus(max_right_rim_above_left))

RECURSIVE ScanLeftRimUp(_, _, _, _, _)
ScanLeftRimUp(smoothed, right_rim_idx, l, top, acc) ==
    IF l > top THEN acc
    ELSE IF ~validate_left_rim(smoothed, right_rim_idx, l)
         THEN ScanLeftRimUp(smoothed, right_rim_idx, l + 1, top, acc)
    ELSE LET pattern_data == validate_full_pattern(smoothed, l, right_rim_idx)
             next == Append(acc, [left_rim_idx |-> l, right_rim_idx |-> right_rim_idx,
                                  pattern_data |-> pattern_data])
         IN IF pattern_data.is_valid THEN next
            ELSE ScanLeftRimUp(smoothed, right_rim_idx, l + 1, top, next)
\* Mutant: the candidates are scanned oldest first, range(1, l + 1)
ScanLeftRim_Upward(smoothed, right_rim_idx, l, acc) ==
    ScanLeftRimUp(smoothed, right_rim_idx, 1, l, acc)

RECURSIVE ScanLeftRange(_, _, _, _)
\* The left-rim scan over the candidates hi, hi - 1, .. lo (by halves, the later
\* half first): every candidate that passes the tolerance test is handed to
\* the Validator, in scan order, up to and including the first one it accepts
ScanLeftRange(smoothed, right_rim_idx, lo, hi) ==
    IF lo > hi THEN <<>>
    ELSE IF lo = hi
         THEN IF ~validate_left_rim(smoothed, right_rim_idx, lo) THEN <<>>
              ELSE << [left_rim_idx |-> lo, right_rim_idx |-> right_rim_idx,
                       pattern_data |-> validate_full_pattern(smoothed, lo, right_rim_idx)] >>
    ELSE LET mid == (lo + hi) \div 2
             later == ScanLeftRange(smoothed, right_rim_idx, mid + 1, hi)
         IN IF later # <<>> /\ later[Len(later)].pattern_data.is_valid THEN later
            ELSE later \o ScanLeftRange(smoothed, right_rim_idx, lo, mid)

\* for left_rim_idx in range(l, 0, -1), after the candidates of acc
ScanLeftRim(smoothed, right_rim_idx, l, acc) ==
    acc \o ScanLeftRange(smoothed, right_rim_idx, 1, l)

\* ------------------------------------------------------------ state
VARIABLES
    has_price,        \* 'price' in df.columns
    timestamps,       \* df['timestamp']
    prices,           \* df['price']
    pc,               \* where detect_cup_and_handle is
    smoothing_window, \* auto_adjust_params(prices), None before it is called
    smoothed,         \* smooth_prices(prices, smoothing_window), times Scale
    start_idx,        \* upper bound of the next right-rim search
    right_rim_idx,    \* the right rim of the current iteration
    handed,           \* the pairs handed to the Validator so far, with its answers
    result_info,      \* the dictionary returned with the verdict
    iterations        \* right-rim searches made so far

detectorVars == <<has_price, timestamps, prices, pc, smoothing_window, smoothed,
                  start_idx, right_rim_idx, handed, result_info, iterations>>

\* The endpoint /detect-pattern (api/router.py)
VARIABLES
    request,          \* the PatternRequest being handled
    response,         \* the HTTP answer, Pending before the handler ran
    detection         \* the call of detect_cup_and_handle_wrapper the handler made

routerVars == <<request, response, detection>>

\* The price store (data/storage.py) and its callers (data/fetcher.py,
\* data/scheduler.py, analysis/detector.py get_price_data)
VARIABLES
    clock,            \* datetime.now(timezone.utc), in ticks
    data,             \* the frame _data: its rows in order, each with its index label
    data_file,        \* the rows of the CSV file DATA_FILE
    last_trim,        \* cutoff_time of the last delete_old_prices and the rows it dropped
    last_call         \* the last call made on the store and how it ended

storeVars == <<clock, data, data_file, last_trim, last_call>>

\* The threads working on the store
VARIABLES
    job,              \* the last firing of _scheduled_job (data/scheduler.py)
    storer,           \* a thread inside store_prices_and_save_file
    getter            \* a thread inside get_prices

threadVars == <<job, storer, getter>>

\* The variables the detector does not touch, and their value while only the
\* detector runs
otherVars == <<routerVars, storeVars, threadVars>>
NoRequest == [company |-> <<>>, include_plot |-> "no request"]
Pending == [status |-> 0]
NotInvoked == [outcome |-> "not invoked"]
RouterIdle ==
    /\ request = NoRequest
    /\ response = Pending
    /\ detection = NotInvoked
NoTrim == [cutoff_time |-> 0, removed |-> <<>>]
NoCall == [op |-> "none"]
StoreIdle ==
    /\ clock = 0
    /\ data = <<>>
    /\ data_file = <<>>
    /\ last_trim = NoTrim
    /\ last_call = NoCall
NoJob == [slot |-> -1, utc_offset |-> 0, delay |-> 0, now |-> 0, fetched |-> FALSE]
NoThread == [pc |-> "idle"]
ThreadsIdle ==
    /\ job = NoJob
    /\ storer = NoThread
    /\ getter = NoThread
OthersIdle == RouterIdle /\ StoreIdle /\ ThreadsIdle

vars == <<detectorVars, otherVars>>


\* ------------------------------------------------------------ inputs
\* Bounds of the input families
MaxShortLen == 6
MaxPlainLen == 14
MaxFlat == 5

\* Price levels of the exhaustive short series
Levels == {100, 90}
\* Every series of Levels with 0 .. MaxShortLen samples
ShortSeries == UNION {[1..n -> Levels] : n \in 0..MaxShortLen}
\* Constant series
ConstantSeries == {[k \in 1..n |-> v] : n \in MinSamples..MaxPlainLen, v \in {40, 100}}
\* Strictly increasing series: from `first`, steps of `odd` and `even` in turn
IncreasingSeries ==
    {[k \in 1..n |-> first + odd * (k \div 2) + even * ((k - 1) \div 2)] :
        n \in MinSamples..MaxPlainLen, first \in {50, 100}, odd \in {1, 4}, even \in {1, 4}}

RECURSIVE Piecewise(_, _)
\* A piecewise linear series: from the price v0, each segment <<count, to>>
\* adds count samples that move linearly to the price `to`
Piecewise(v0, segs) ==
    IF segs = <<>> THEN <<v0>>
    ELSE LET head == Piecewise(v0, SubSeq(segs, 1, Len(segs) - 1))
             from == IF Len(segs) = 1 THEN v0 ELSE segs[Len(segs) - 1][2]
             count == segs[Len(segs)][1]
             to == segs[Len(segs)][2]
         IN head \o [i \in 1..count |-> from + ((to - from) * i) \div count]

\* A left rim at `left` held for `flat` samples, a cup of half-width `half`
\* down to 100 - depth and back to 100, a handle of half-width 7 down to
\* 100 - dip and back to 100, and `tail` closing samples at 100
CupAndHandle(left, flat, half, depth, dip, tail) ==
    Piecewise(left, << <<flat, left>>, <<half, 100 - depth>>, <<half, 100>>,
                       <<7, 100 - dip>>, <<7, 100>>, <<tail, 100>> >>)

ShapedSeries ==
    {CupAndHandle(left, flat, half, depth, dip, tail) :
        left \in {100, 104}, flat \in {1, MaxFlat}, half \in {9, 11},
        depth \in {15, 25}, dip \in {6, 10}, tail \in {1, 2}}

PriceSeries == ShortSeries \cup ConstantSeries \cup IncreasingSeries \cup ShapedSeries

\* Bounds of the long input families
MinWideLen == 201
MaxWideLen == 206
MaxDip == 136

\* The 100-sample scenario: samples 0-39 rise from 100 to 140, 40-59 fall to
\* 110 (at 50) and rise back to 139, 60 is at 140, 61-75 dip to `dip` (at 68)
\* and recover to 141, 76-99 stay at 141
Scenario(dip) ==
    Piecewise(100, << <<39, 140>>, <<11, 110>>, <<9, 139>>, <<1, 140>>,
                      <<8, dip>>, <<7, 141>>, <<24, 141>> >>)
\* The scenario with its handle trough at 134 and nearby, and at 90
ScenarioSeries == {Scenario(dip) : dip \in (132..MaxDip) \cup {90}}

\* The last six prices of a long flat series: a final three-sample handle
WideTails ==
    {<<80, 80, 105, 105, 80, 80>>, <<80, 80, 120, 110, 80, 80>>,
     <<80, 95, 95, 80, 80, 90>>}
\* n prices, all 100 but the last six
WideSeries ==
    {[k \in 1..n |-> IF k <= n - 6 THEN 100 ELSE tail[k - (n - 6)]] :
        n \in MinWideLen..MaxWideLen, tail \in WideTails}

LongSeries == ScenarioSeries \cup WideSeries

\* ------------------------------------------------------------ detect_cup_and_handle
\* Mutant: the length test is missing
InvalidInput_EmptyOnly(n_rows, price_column) ==
    n_rows = 0 \/ ~price_column

\* df.empty or len(df) < 5 or 'price' not in df.columns
InvalidInput(n_rows, price_column) ==
    n_rows = 0 \/ n_rows < MinSamples \/ ~price_column

\* Mutant: the retry starts again at the right rim it just tried
NextStart_Same(right_rim) == right_rim

\* start_idx after a right rim whose left-rim search found nothing
NextStart(right_rim) == right_rim - 1

\* timestamps.iloc[i], timestamps.loc[label]: the frame's labels are its positions
TimestampAt(i) == Iloc(timestamps, i)
\* The position whose timestamp is ts
PosOf(ts) == CHOOSE i \in 0..(Len(timestamps) - 1) : Iloc(timestamps, i) = ts

EmptyResult ==
    [left_rim |-> None, left_min |-> None, right_rim |-> None, right_min |-> None,
     current |-> None, pattern_detected |-> FALSE]

\* Mutant: the troughs are stored only for a pair the Validator accepted
RecordCandidate_OnlyValid(info, entry) ==
    IF entry.pattern_data.is_valid
    THEN [info EXCEPT !.left_rim = Iloc(timestamps, entry.left_rim_idx),
                      !.left_min = Iloc(timestamps, entry.pattern_data.left_min_idx),
                      !.right_min = Iloc(timestamps, entry.pattern_data.right_min_idx)]
    ELSE [info EXCEPT !.left_rim = Iloc(timestamps, entry.left_rim_idx)]

\* result_info after one candidate of the left-rim search met the Validator
RecordCandidate(info, entry) ==
    [info EXCEPT !.left_rim = TimestampAt(entry.left_rim_idx),
                 !.left_min = TimestampAt(entry.pattern_data.left_min_idx),
                 !.right_min = TimestampAt(entry.pattern_data.right_min_idx)]

\* The state when detect_cup_and_handle has fetched the frame of a company,
\* for a price column drawn from `series`
DetectorInit(series) ==
    /\ \/ /\ has_price = TRUE
          /\ prices \in series
       \/ /\ has_price = FALSE
          /\ prices = <<>>
    /\ \E n \in {0, MinSamples, MaxPlainLen} :
          timestamps = [k \in 1..(IF has_price THEN Len(prices) ELSE n) |->
                            (k - 1) * SAMPLE_INTERVAL_MINUTES]
    /\ pc = "start"
    /\ smoothing_window = None
    /\ smoothed = <<>>
    /\ start_idx = None
    /\ right_rim_idx = None
    /\ handed = <<>>
    /\ result_info = EmptyResult
    /\ iterations = 0
    /\ OthersIdle

Init == DetectorInit(PriceSeries)

\* The input check fails: ValueError
RaiseInvalidInput ==
    /\ pc = "start"
    /\ InvalidInput(Len(timestamps), has_price)
    /\ pc' = "raised"
    /\ UNCHANGED <<has_price, timestamps, prices, smoothing_window, smoothed, start_idx,
                   right_rim_idx, handed, result_info, iterations>>
    /\ UNCHANGED otherVars

\* The input check passes: choose the window, smooth, start at len - 2
Prepare ==
    /\ pc = "start"
    /\ ~InvalidInput(Len(timestamps), has_price)
    /\ result_info' = [result_info EXCEPT !.current = Last(timestamps)]
    /\ smoothing_window' = auto_adjust_params(prices)
    /\ smoothed' = smooth_prices(prices, smoothing_window')
    /\ start_idx' = Len(prices) - 2
    /\ pc' = "SEARCH_RIGHT_RIM"
    /\ UNCHANGED <<has_price, timestamps, prices, right_rim_idx, handed, iterations>>
    /\ UNCHANGED otherVars

\* One pass of the while loop up to the right rim: none left, or the next one
SearchRightRim ==
    /\ pc = "SEARCH_RIGHT_RIM"
    /\ iterations' = iterations + 1
    /\ LET found == find_next_right_rim(smoothed, start_idx)
       IN IF found = None
          THEN /\ pc' = "NOT_DETECTED"
               /\ UNCHANGED <<right_rim_idx, result_info>>
          ELSE /\ right_rim_idx' = found
               /\ result_info' = [result_info EXCEPT !.right_rim = TimestampAt(found)]
               /\ pc' = "SEARCH_LEFT_RIM"
    /\ UNCHANGED <<has_price, timestamps, prices, smoothing_window, smoothed, start_idx,
                   handed>>
    /\ UNCHANGED otherVars

\* find_left_rim_and_validate_pattern for the current right rim, then either
\* the verdict or the retry below this right rim
SearchLeftRim ==
    /\ pc = "SEARCH_LEFT_RIM"
    /\ LET scan == ScanLeftRim(smoothed, right_rim_idx, right_rim_idx - 2, <<>>)
           info == IF scan = <<>> THEN result_info
                   ELSE RecordCandidate(result_info, scan[Len(scan)])
       IN /\ handed' = handed \o scan
          /\ IF scan # <<>> /\ scan[Len(scan)].pattern_data.is_valid
             THEN /\ result_info' = [info EXCEPT !.pattern_detected = TRUE]
                  /\ pc' = "DETECTED"
                  /\ UNCHANGED start_idx
             ELSE /\ result_info' = info
                  /\ start_idx' = NextStart(right_rim_idx)
                  /\ pc' = "SEARCH_RIGHT_RIM"
    /\ UNCHANGED <<has_price, timestamps, prices, smoothing_window, smoothed,
                   right_rim_idx, iterations>>
    /\ UNCHANGED otherVars

Next == RaiseInvalidInput \/ Prepare \/ SearchRightRim \/ SearchLeftRim

Spec == Init /\ [][Next]_vars

\* The same call on the long series
LongInit == DetectorInit(LongSeries)
LongSpec == LongInit /\ [][Next]_vars

\* ------------------------------------------------------------ smooth_prices called on its own
\* (analysis/preprocessing.py): the input is a strictly monotonic series and
\* the window one of the three the Parameter Selector can choose.
MaxMonoLen == 11
RECURSIVE PrefixSum(_, _)
PrefixSum(steps, k) == IF k = 0 THEN 0 ELSE PrefixSum(steps, k - 1) + steps[k]
Rising(steps) == [k \in 1..(Len(steps) + 1) |-> 100 + PrefixSum(steps, k - 1)]
Falling(steps) == [k \in 1..(Len(steps) + 1) |-> 200 - PrefixSum(steps, k - 1)]
MonotoneSeries ==
    UNION {{Rising(steps), Falling(steps)} :
              steps \in UNION {[1..n -> {1, 9}] : n \in 0..(MaxMonoLen - 1)}}
SmoothInit ==
    /\ has_price = TRUE
    /\ prices \in MonotoneSeries
    /\ timestamps = [k \in 1..Len(prices) |-> (k - 1) * SAMPLE_INTERVAL_MINUTES]
    /\ pc = "smooth_call"
    /\ smoothing_window \in {WindowLow, WindowMedium, WindowHigh}
    /\ smoothed = <<>>
    /\ start_idx = None
    /\ right_rim_idx = None
    /\ handed = <<>>
    /\ result_info = EmptyResult
    /\ iterations = 0
    /\ OthersIdle
Smooth ==
    /\ pc = "smooth_call"
    /\ smoothed' = smooth_prices(prices, smoothing_window)
    /\ pc' = "smooth_done"
    /\ UNCHANGED <<has_price, timestamps, prices, smoothing_window, start_idx,
                   right_rim_idx, handed, result_info, iterations>>
    /\ UNCHANGED otherVars
SmoothSpec == SmoothInit /\ [][Smooth]_vars

\* ------------------------------------------------------------ the endpoint /detect-pattern
\* (api/router.py). A string is a sequence of characters.
UpperCase == <<"A", "B", "C", "D", "E", "F", "G", "H", "I", "J", "K", "L", "M", "N", "O", "P", "Q", "R", "S", "T", "U", "V", "W", "X", "Y", "Z">>
LowerCase == <<"a", "b", "c", "d", "e", "f", "g", "h", "i", "j", "k", "l", "m", "n", "o", "p", "q", "r", "s", "t", "u", "v", "w", "x", "y", "z">>
\* str.lower() on one character
Lower_Identity(c) == c
Lower(c) ==
    IF \E i \in 1..Len(UpperCase) : UpperCase[i] = c
    THEN LowerCase[CHOOSE i \in 1..Len(UpperCase) : UpperCase[i] = c]
    ELSE c
StrLower(str) == [i \in 1..Len(str) |-> Lower(str[i])]
\* The dict STOCK_SYMBOLS in its insertion order
STOCK_SYMBOLS ==
    << [symbol |-> <<"A", "A", "P", "L">>, name |-> <<"A", "p", "p", "l", "e">>],
       [symbol |-> <<"M", "S", "F", "T">>, name |-> <<"M", "i", "c", "r", "o", "s", "o", "f", "t">>],
       [symbol |-> <<"G", "O", "O", "G", "L">>, name |-> <<"A", "l", "p", "h", "a", "b", "e", "t">>],
       [symbol |-> <<"A", "M", "Z", "N">>, name |-> <<"A", "m", "a", "z", "o", "n">>],
       [symbol |-> <<"N", "V", "D", "A">>, name |-> <<"N", "v", "i", "d", "i", "a">>],
       [symbol |-> <<"M", "E", "T", "A">>, name |-> <<"M", "e", "t", "a">>],
       [symbol |-> <<"T", "S", "L", "A">>, name |-> <<"T", "e", "s", "l", "a">>] >>
\* dict.get on a dict built by a comprehension over STOCK_SYMBOLS.items(): the
\* last entry with the key wins; NoEntry (None) when no entry has it
NoEntry == <<"None">>
LookUp(key, keys, values) ==
    LET hits == {i \in 1..Len(keys) : keys[i] = key}
    IN IF hits = {} THEN NoEntry ELSE values[SetMax(hits)]
Symbols == [i \in 1..Len(STOCK_SYMBOLS) |-> STOCK_SYMBOLS[i].symbol]
Names == [i \in 1..Len(STOCK_SYMBOLS) |-> STOCK_SYMBOLS[i].name]
valid_companies(input_name) ==
    LookUp(input_name, [i \in 1..Len(Names) |-> StrLower(Names[i])], Symbols)
valid_symbols(input_name) ==
    LookUp(input_name, [i \in 1..Len(Symbols) |-> StrLower(Symbols[i])], Symbols)
\* analysis/detector.py get_symbol: NoEntry stands for the ValueError it raises
get_symbol(company) == LookUp(company, Names, Symbols)
\* str(include_plot).lower(), for include_plot given as its str(): "True",
\* "False" or "None"
include_plot_str(include_plot) ==
    CASE include_plot = "True" -> "true"
      [] include_plot = "False" -> "false"
      [] OTHER -> "none"
\* Every spelling of a string in upper and lower case letters
CaseVariants(str) ==
    {[i \in 1..Len(str) |->
         LET k == CHOOSE j \in 1..Len(UpperCase) : str[i] \in {UpperCase[j], LowerCase[j]}
         IN IF mask[i] THEN UpperCase[k] ELSE LowerCase[k]] :
        mask \in [1..Len(str) -> BOOLEAN]}
KnownInputs ==
    UNION {CaseVariants(STOCK_SYMBOLS[i].symbol) \cup CaseVariants(STOCK_SYMBOLS[i].name) :
              i \in 1..Len(STOCK_SYMBOLS)}
UnknownInputs ==
    {<<>>, <<"I", "B", "M">>, <<"A", "p", "p", "l">>, <<"A", "p", "p", "l", "e", " ">>, <<"G", "o", "o", "g", "l", "e">>, <<"A", "A", "P", "L", "1">>, <<"T", "e", "s", "l", "a", " ", "I", "n", "c">>}
\* include_plot: Optional[bool], so True, False or None (a JSON null)
Requests ==
    [company : KnownInputs \cup UnknownInputs, include_plot : {"True", "False", "None"}]
\* What detect_cup_and_handle_wrapper can answer: a verdict, or a ValueError
\* (unknown company, too few rows, no plot)
DetectionOutcomes == {"detected", "not_detected", "ValueError"}
DetectorIdle ==
    /\ has_price = FALSE
    /\ timestamps = <<>>
    /\ prices = <<>>
    /\ pc = "idle"
    /\ smoothing_window = None
    /\ smoothed = <<>>
    /\ start_idx = None
    /\ right_rim_idx = None
    /\ handed = <<>>
    /\ result_info = EmptyResult
    /\ iterations = 0
RouterInit ==
    /\ request \in Requests
    /\ response = Pending
    /\ detection = NotInvoked
    /\ DetectorIdle
    /\ StoreIdle
    /\ ThreadsIdle
BadRequest == [status |-> 400]
detect_pattern ==
    /\ response = Pending
    /\ LET input_name == StrLower(request.company)
           symbol == IF valid_companies(input_name) # NoEntry
                     THEN valid_companies(input_name)
                     ELSE valid_symbols(input_name)
       IN IF symbol = NoEntry
          THEN response' = BadRequest /\ UNCHANGED detection
          ELSE LET company_name == LookUp(symbol, Symbols, Names)
                   include_plot == include_plot_str(request.include_plot) = "true"
               IN IF include_plot_str(request.include_plot) \notin {"true", "false"}
                  THEN response' = BadRequest /\ UNCHANGED detection
                  ELSE \E outcome \in DetectionOutcomes :
                          /\ detection' = [company |-> company_name,
                                           include_plot |-> include_plot,
                                           symbol |-> get_symbol(company_name),
                                           outcome |-> outcome]
                          /\ response' =
                                IF outcome = "ValueError" \/ get_symbol(company_name) = NoEntry
                                THEN BadRequest
                                ELSE [status |-> 200,
                                      company |-> request.company,
                                      pattern_detected |-> (outcome = "detected"),
                                      plot_base64 |-> include_plot]
    /\ UNCHANGED request
    /\ UNCHANGED <<detectorVars, storeVars, threadVars>>
RouterSpec == RouterInit /\ [][detect_pattern]_vars

\* ------------------------------------------------------------ the price store
\* (data/storage.py, data/fetcher.py). Time is counted in ticks; a row of the
\* frame is [label, timestamp, symbol, price], a row of the file has no label.
TicksPerDay == 1
DATA_RETENTION_DAYS == 3
StartClock == 4
MaxClock == 7
\* The tickers get_stock_prices asks for, in the order of the dict
Tickers == <<STOCK_SYMBOLS[1].symbol, STOCK_SYMBOLS[2].symbol>>
Quote(ticker) == IF ticker = Tickers[1] THEN 190 ELSE 410
\* get_stock_prices: the dict of the tickers that had a price, in dict order
PriceDicts ==
    {SelectSeq([k \in 1..Len(Tickers) |-> [ticker |-> Tickers[k], price |-> Quote(Tickers[k])]],
               LAMBDA e : e.ticker \in had) : had \in SUBSET {Tickers[k] : k \in 1..Len(Tickers)}}
\* new_entries: one row per item of the dict, stamped now
new_entries(quotes, now) ==
    [k \in 1..Len(quotes) |->
        [timestamp |-> now, symbol |-> quotes[k].ticker, price |-> quotes[k].price]]
\* A frame with a fresh RangeIndex (read_csv, concat with ignore_index=True)
RangeIndexed(rows) ==
    [k \in 1..Len(rows) |->
        [label |-> k - 1, timestamp |-> rows[k].timestamp,
         symbol |-> rows[k].symbol, price |-> rows[k].price]]
\* to_csv(index=False)
CsvRows(frame) ==
    [k \in 1..Len(frame) |->
        [timestamp |-> frame[k].timestamp, symbol |-> frame[k].symbol,
         price |-> frame[k].price]]
cutoff_time(now) == now - DATA_RETENTION_DAYS * TicksPerDay
\* _data[_data["timestamp"] >= cutoff_time]: the rows kept, labels and order kept
Trimmed_Strict(frame, now) ==
    SelectSeq(frame, LAMBDA r : r.timestamp > cutoff_time(now))
Trimmed(frame, now) ==
    SelectSeq(frame, LAMBDA r : r.timestamp >= cutoff_time(now))
\* delete_old_prices at time now: the frame it leaves, its cutoff and the rows
\* of the frame it did not keep
delete_old_prices(frame, now) ==
    LET kept == Trimmed(frame, now)
    IN [data |-> kept,
        trim |-> [cutoff_time |-> cutoff_time(now),
                  removed |-> SelectSeq(frame, LAMBDA r :
                                 \A k \in 1..Len(kept) : kept[k].label # r.label)]]
\* pd.concat([_data, new_df], ignore_index=True)
Concat_NewFirst(frame, new_df) == RangeIndexed(new_df \o frame)
Concat(frame, new_df) == RangeIndexed(frame \o new_df)
\* to_csv opening the file in append mode instead of overwriting it
Saved_Append(frame, file, written) ==
    IF written THEN file \o CsvRows(frame) ELSE file
\* to_csv inside try/except: the file takes the rows, or the write fails and
\* the file stays as it was
Saved(frame, file, written) == IF written THEN CsvRows(frame) ELSE file
\* store_prices_and_save_file called with the positional arguments args: it
\* takes one, the dict; any other number is a TypeError raised before its body
store_prices_and_save_file(args, frame, file, trim, now, written) ==
    IF Len(args) # 1
    THEN [raised |-> "TypeError", data |-> frame, data_file |-> file, trim |-> trim]
    ELSE LET trimmed == delete_old_prices(Concat(frame, new_entries(args[1], now)), now)
         IN [raised |-> "none", data |-> trimmed.data,
             data_file |-> Saved(trimmed.data, file, written), trim |-> trimmed.trim]
\* load_existing_data_if_available at time now
load_existing_data_if_available(file, now, written) ==
    LET trimmed == delete_old_prices(RangeIndexed(file), now)
    IN [data |-> trimmed.data, data_file |-> Saved(trimmed.data, file, written),
        trim |-> trimmed.trim]
\* fetch_and_store_stock_prices: store_prices_and_save_file(prices, now)
fetch_and_store_stock_prices(quotes, frame, file, trim, now, written) ==
    store_prices_and_save_file(<<quotes, now>>, frame, file, trim, now, written)
\* The rows get_prices selects from a frame
Selected(frame, symbol, from_ts, to_ts) ==
    SelectSeq(frame, LAMBDA r :
        r.symbol = symbol /\ r.timestamp >= from_ts /\ r.timestamp <= to_ts)
\* The files the program can have left behind: batches of earlier fetches
RECURSIVE OldBatches(_)
OldBatches(ticks) ==
    IF ticks = <<>> THEN {<<>>}
    ELSE {new_entries(quotes, ticks[1]) \o rest :
             quotes \in PriceDicts, rest \in OldBatches(Tail(ticks))}
InitialFiles == OldBatches(<<0, 1, 3>>)
\* The state after the import of data/storage.py, which loads the file
Imported(files, loaded_at) ==
    /\ \E file \in files, written \in BOOLEAN :
          LET loaded == load_existing_data_if_available(file, loaded_at, written)
          IN /\ data = loaded.data
             /\ data_file = loaded.data_file
             /\ last_trim = loaded.trim
    /\ last_call = NoCall
    /\ DetectorIdle
    /\ RouterIdle
StoreInit ==
    /\ clock = StartClock
    /\ Imported(InitialFiles, StartClock - 1)
    /\ ThreadsIdle
\* Time passes while a call runs and until the next one
Elapse == \E gap \in 1..2 : clock' = clock + gap
StorePrices ==
    /\ clock < MaxClock
    /\ \E quotes \in PriceDicts, written \in BOOLEAN :
          LET done == store_prices_and_save_file(<<quotes>>, data, data_file,
                                                 last_trim, clock, written)
          IN /\ data' = done.data
             /\ data_file' = done.data_file
             /\ last_trim' = done.trim
             /\ last_call' = [op |-> "store_prices_and_save_file", fetched |-> FALSE,
                              raised |-> done.raised, now |-> clock,
                              rows |-> new_entries(quotes, clock)]
    /\ Elapse
    /\ UNCHANGED <<detectorVars, routerVars, threadVars>>
DeleteOldPrices ==
    /\ clock < MaxClock
    /\ LET trimmed == delete_old_prices(data, clock)
       IN /\ data' = trimmed.data
          /\ last_trim' = trimmed.trim
    /\ last_call' = [op |-> "delete_old_prices", fetched |-> FALSE, raised |-> "none",
                     now |-> clock, rows |-> <<>>]
    /\ Elapse
    /\ UNCHANGED <<data_file, detectorVars, routerVars, threadVars>>
LoadExistingData ==
    /\ clock < MaxClock
    /\ \E written \in BOOLEAN :
          LET loaded == load_existing_data_if_available(data_file, clock, written)
          IN /\ data' = loaded.data
             /\ data_file' = loaded.data_file
             /\ last_trim' = loaded.trim
    /\ last_call' = [op |-> "load_existing_data_if_available", fetched |-> FALSE,
                     raised |-> "none", now |-> clock, rows |-> <<>>]
    /\ Elapse
    /\ UNCHANGED <<detectorVars, routerVars, threadVars>>
FetchAndStore ==
    /\ clock < MaxClock
    /\ \E quotes \in PriceDicts, written \in BOOLEAN :
          LET done == fetch_and_store_stock_prices(quotes, data, data_file,
                                                   last_trim, clock, written)
          IN /\ data' = done.data
             /\ data_file' = done.data_file
             /\ last_trim' = done.trim
             /\ last_call' = [op |-> "fetch_and_store_stock_prices", fetched |-> TRUE,
                              raised |-> done.raised, now |-> clock,
                              rows |-> new_entries(quotes, clock)]
    /\ Elapse
    /\ UNCHANGED <<detectorVars, routerVars, threadVars>>
\* detect_cup_and_handle asking for its rows: get_price_data(symbol), which is
\* get_prices(symbol, now - DATA_RETENTION_DAYS, now). On an empty frame
\* get_prices calls fetch_and_store_stock_prices and then reloads the file.
GetPriceData ==
    /\ clock < MaxClock
    /\ \E k \in 1..Len(Tickers), quotes \in PriceDicts, written \in BOOLEAN :
          LET symbol == Tickers[k]
              to_ts == clock
              from_ts == to_ts - DATA_RETENTION_DAYS * TicksPerDay
          IN IF data = <<>>
             THEN LET done == fetch_and_store_stock_prices(quotes, data, data_file,
                                                           last_trim, clock, written)
                      loaded == load_existing_data_if_available(done.data_file, clock, written)
                  IN IF done.raised # "none"
                     THEN /\ data' = done.data
                          /\ data_file' = done.data_file
                          /\ last_trim' = done.trim
                          /\ last_call' = [op |-> "get_price_data", fetched |-> TRUE,
                                           raised |-> done.raised, now |-> clock,
                                           rows |-> <<>>]
                     ELSE /\ data' = loaded.data
                          /\ data_file' = loaded.data_file
                          /\ last_trim' = loaded.trim
                          /\ last_call' = [op |-> "get_price_data", fetched |-> TRUE,
                                           raised |-> "none", now |-> clock,
                                           rows |-> Selected(loaded.data, symbol, from_ts, to_ts)]
             ELSE /\ UNCHANGED <<data, data_file, last_trim>>
                  /\ last_call' = [op |-> "get_price_data", fetched |-> FALSE,
                                   raised |-> "none", now |-> clock,
                                   rows |-> Selected(data, symbol, from_ts, to_ts)]
    /\ Elapse
    /\ UNCHANGED <<detectorVars, routerVars, threadVars>>
StoreNext ==
    \/ StorePrices
    \/ DeleteOldPrices
    \/ LoadExistingData
    \/ FetchAndStore
    \/ GetPriceData
StoreSpec == StoreInit /\ [][StoreNext]_vars

\* ------------------------------------------------------------ the scheduled job
\* (data/scheduler.py). The job is fired at the slots of a week, one every
\* SAMPLE_INTERVAL_MINUTES of the wall clock of America/New_York, slot 0 being
\* Monday 00:00. The cron trigger fires at the slots of Monday to Friday,
\* 9:00 to 16:55; the job is modelled at the other slots too. Its clock is
\* counted in seconds from Monday 00:00 UTC.
MaxDelay == 1
SecondsPerDay == 24 * 60 * 60
SlotsPerDay == (24 * 60) \div SAMPLE_INTERVAL_MINUTES
SlotsPerWeek == 7 * SlotsPerDay
\* Hours America/New_York is behind UTC: daylight time, standard time
EasternOffsets == {4, 5}
\* datetime.now(timezone.utc) in the job fired at a slot, delay seconds late
JobNow(slot, utc_offset, delay) ==
    (slot * SAMPLE_INTERVAL_MINUTES + utc_offset * 60) * 60 + delay
\* now.astimezone(EASTERN)
astimezone(now, utc_offset) == now - utc_offset * 60 * 60
market_open == (9 * 60 + 30) * 60
market_close == 16 * 60 * 60
is_trading_hours_Utc(now, utc_offset) ==
    LET weekday == (now \div SecondsPerDay) % 7
        time == now % SecondsPerDay
    IN IF weekday >= 5 THEN FALSE
       ELSE market_open <= time /\ time <= market_close
is_trading_hours(now, utc_offset) ==
    LET now_et == astimezone(now, utc_offset)
        weekday == (now_et \div SecondsPerDay) % 7
        time == now_et % SecondsPerDay
    IN IF weekday >= 5 THEN FALSE
       ELSE market_open <= time /\ time <= market_close
SchedulerInit ==
    /\ clock = StartClock
    /\ Imported({<<>>, new_entries(CHOOSE q \in PriceDicts : Len(q) = Len(Tickers), 3)},
                StartClock - 1)
    /\ \E utc_offset \in EasternOffsets : job = [NoJob EXCEPT !.utc_offset = utc_offset]
    /\ storer = NoThread
    /\ getter = NoThread
\* _scheduled_job, fired at the next slot
ScheduledJob ==
    /\ job.slot + 1 < SlotsPerWeek
    /\ \E delay \in 0..MaxDelay, quotes \in PriceDicts, written \in BOOLEAN :
          LET slot == job.slot + 1
              now == JobNow(slot, job.utc_offset, delay)
              today == StartClock + (now \div SecondsPerDay) * TicksPerDay
          IN /\ clock' = today
             /\ IF is_trading_hours(now, job.utc_offset)
                THEN LET done == fetch_and_store_stock_prices(quotes, data, data_file,
                                                              last_trim, today, written)
                     IN /\ data' = done.data
                        /\ data_file' = done.data_file
                        /\ last_trim' = done.trim
                        /\ last_call' = [op |-> "fetch_and_store_stock_prices",
                                         fetched |-> TRUE, raised |-> done.raised,
                                         now |-> today, rows |-> new_entries(quotes, today)]
                        /\ job' = [slot |-> slot, utc_offset |-> job.utc_offset,
                                   delay |-> delay, now |-> now, fetched |-> TRUE]
                ELSE /\ UNCHANGED <<data, data_file, last_trim, last_call>>
                     /\ job' = [slot |-> slot, utc_offset |-> job.utc_offset,
                                delay |-> delay, now |-> now, fetched |-> FALSE]
    /\ UNCHANGED <<detectorVars, routerVars, storer, getter>>
SchedulerSpec == SchedulerInit /\ [][ScheduledJob]_vars

\* ------------------------------------------------------------ get_prices against a running store
\* (data/storage.py). One thread is inside store_prices_and_save_file(quotes),
\* another inside get_prices; each step is one read or one rebinding of the
\* global _data, which no lock guards.
\* A boolean Series over a frame: the labels of its index and the labels
\* where it is True, which are those of the rows passing the comparison
MaskOf(frame, passing) ==
    [dom |-> {frame[k].label : k \in 1..Len(frame)},
     true |-> {passing[k].label : k \in 1..Len(passing)}]
\* a & b: aligned on the union of the labels, False where either lacks the label
MaskAnd(a, b) == [dom |-> a.dom \cup b.dom, true |-> a.true \cap b.true]
\* frame[key] with a boolean Series: an IndexingError unless the key has every
\* label of the frame, else the rows of the frame whose label the key holds True
BooleanIndexed(frame, key) ==
    IF \E k \in 1..Len(frame) : frame[k].label \notin key.dom
    THEN [raised |-> "IndexingError", rows |-> <<>>]
    ELSE [raised |-> "none", rows |-> SelectSeq(frame, LAMBDA r : r.label \in key.true)]
RaceInit ==
    /\ clock = StartClock + 2
    /\ Imported(InitialFiles, StartClock)
    /\ ThreadsIdle
\* _data = pd.concat([_data, new_df], ignore_index=True)
StoreConcat ==
    /\ storer.pc = "idle"
    /\ \E quotes \in PriceDicts :
          /\ data' = Concat(data, new_entries(quotes, clock))
          /\ storer' = [pc |-> "concat", now |-> clock, rows |-> new_entries(quotes, clock)]
    /\ UNCHANGED <<clock, data_file, last_trim, last_call, job, getter,
                   detectorVars, routerVars>>
\* delete_old_prices()
StoreTrim ==
    /\ storer.pc = "concat"
    /\ LET trimmed == delete_old_prices(data, clock)
       IN /\ data' = trimmed.data
          /\ last_trim' = trimmed.trim
    /\ storer' = [storer EXCEPT !.pc = "trimmed"]
    /\ UNCHANGED <<clock, data_file, last_call, job, getter, detectorVars, routerVars>>
\* _data.to_csv(DATA_FILE, index=False), and the return
StoreSave ==
    /\ storer.pc = "trimmed"
    /\ \E written \in BOOLEAN : data_file' = Saved(data, data_file, written)
    /\ storer' = [storer EXCEPT !.pc = "done"]
    /\ last_call' = [op |-> "store_prices_and_save_file", fetched |-> FALSE,
                     raised |-> "none", now |-> storer.now, rows |-> storer.rows]
    /\ UNCHANGED <<clock, data, last_trim, job, getter, detectorVars, routerVars>>
\* get_prices(symbol, now - DATA_RETENTION_DAYS, now) up to its return
\* statement: on an empty frame it calls fetch_and_store_stock_prices
GetStart ==
    /\ getter.pc = "idle"
    /\ \E k \in 1..Len(Tickers), quotes \in PriceDicts :
          LET done == fetch_and_store_stock_prices(quotes, data, data_file, last_trim,
                                                   clock, TRUE)
          IN getter' =
                [pc |-> IF data = <<>> /\ done.raised # "none" THEN "done" ELSE "reading",
                 symbol |-> Tickers[k],
                 from_ts |-> clock - DATA_RETENTION_DAYS * TicksPerDay,
                 to_ts |-> clock,
                 reads |-> <<>>,
                 raised |-> IF data = <<>> THEN done.raised ELSE "none",
                 rows |-> <<>>]
    /\ UNCHANGED <<storeVars, job, storer, detectorVars, routerVars>>
\* One read of the global _data in the return statement: the frame to index
\* first, then the frame of each of the three comparisons; after the fourth
\* read the masks are combined and the first frame is indexed with them
GetRead ==
    /\ getter.pc = "reading"
    /\ LET reads == Append(getter.reads, data)
           key == MaskAnd(MaskAnd(
                      MaskOf(reads[2], SelectSeq(reads[2], LAMBDA r : r.symbol = getter.symbol)),
                      MaskOf(reads[3], SelectSeq(reads[3], LAMBDA r : r.timestamp >= getter.from_ts))),
                      MaskOf(reads[4], SelectSeq(reads[4], LAMBDA r : r.timestamp <= getter.to_ts)))
       IN IF Len(reads) < 4
          THEN getter' = [getter EXCEPT !.reads = reads]
          ELSE getter' = [getter EXCEPT !.pc = "done", !.reads = reads,
                                        !.raised = BooleanIndexed(reads[1], key).raised,
                                        !.rows = CsvRows(BooleanIndexed(reads[1], key).rows)]
    /\ UNCHANGED <<storeVars, job, storer, detectorVars, routerVars>>
RaceNext ==
    \/ StoreConcat
    \/ StoreTrim
    \/ StoreSave
    \/ GetStart
    \/ GetRead
RaceSpec == RaceInit /\ [][RaceNext]_vars

\* ------------------------------------------------------------ claims
Terminal == {"DETECTED", "NOT_DETECTED"}
\* The indices the right-rim search may return: range(len - 2, len // 2, -1)
RightRimCandidates == (Len(prices) \div 2 + 1)..(Len(prices) - 2)
\* The pair (l, r) passes the tolerance test and the Validator
ValidPair(l, r) ==
    validate_left_rim(smoothed, r, l) /\ FailedCheck(smoothed, l, r) = 0
\* The right rims of the scan range that pass the handle checks and have a valid left rim
FullRightRims ==
    {r \in RightRimCandidates :
        /\ passes_handle_checks(smoothed, r)
        /\ \E l \in 1..(r - 2) : ValidPair(l, r)}
\* The first position of the minimum of positions a .. b of the smoothed series
FirstMinPos(a, b) ==
    CHOOSE i \in a..b :
        /\ \A j \in a..b : Iloc(smoothed, j) >= Iloc(smoothed, i)
        /\ \A j \in a..(i - 1) : Iloc(smoothed, j) > Iloc(smoothed, i)
\* No sample within radius 2 of position i is higher than the sample at i
LocalMaxRadius2(i) ==
    \A j \in (i - 2)..(i + 2) :
        (0 <= j /\ j < Len(smoothed)) => Iloc(smoothed, j) <= Iloc(smoothed, i)
IsConstant(p) == \A i, j \in 1..Len(p) : p[i] = p[j]
IsStrictlyIncreasing(p) == \A i \in 1..(Len(p) - 1) : p[i] < p[i + 1]

\* C1: a call on a valid input makes at most (number of right-rim
\* candidates) + 1 right-rim searches: each retry starts strictly below the
\* previous start (after k searches the start is at most len - 2 - k), so the
\* loop cannot go on forever, and a call that returned ended in exactly one of
\* DETECTED and NOT_DETECTED.
C1_BoundedRetries ==
    /\ iterations <= Cardinality(RightRimCandidates) + 1
    /\ pc = "SEARCH_RIGHT_RIM" => start_idx <= Len(prices) - 2 - iterations
    /\ pc \in Terminal => (result_info.pattern_detected <=> pc = "DETECTED")
\* Three right rims in a row found no left rim, and the search ended
C1_Witness == pc = "NOT_DETECTED" /\ iterations >= 4

\* C2: on DETECTED the right rim is the largest index of the scan range that
\* passes the handle checks and has a valid left rim, and the left rim is the
\* largest index of 1 .. R-2 valid for it; NOT_DETECTED is returned only when
\* the scan range holds no such pair.
C2_FirstValidPair ==
    /\ pc = "DETECTED" =>
          LET R == PosOf(result_info.right_rim)
              L == PosOf(result_info.left_rim)
          IN /\ FullRightRims # {}
             /\ R = SetMax(FullRightRims)
             /\ L = SetMax({l \in 1..(R - 2) : ValidPair(l, R)})
    /\ pc = "NOT_DETECTED" => FullRightRims = {}
\* A detection made on a retry, with several valid left rims to choose from
\* and a candidate the Validator rejected before the accepted one
C2_Witness ==
    /\ pc = "DETECTED"
    /\ iterations >= 2
    /\ Cardinality({l \in 1..(right_rim_idx - 2) : ValidPair(l, right_rim_idx)}) >= 2
    /\ \E k \in 1..Len(handed) :
          handed[k].right_rim_idx = right_rim_idx /\ ~handed[k].pattern_data.is_valid

\* C3: on DETECTED, left_rim < left_min < right_rim < right_min <= last, for
\* the positions of the timestamps reported in the result.
C3_PairOrdering ==
    pc = "DETECTED" =>
        /\ PosOf(result_info.left_rim) < PosOf(result_info.left_min)
        /\ PosOf(result_info.left_min) < PosOf(result_info.right_rim)
        /\ PosOf(result_info.right_rim) < PosOf(result_info.right_min)
        /\ PosOf(result_info.right_min) <= Len(prices) - 1
C3_Witness ==
    /\ pc = "DETECTED"
    /\ result_info.pattern_detected
    /\ result_info.left_min # None
    /\ result_info.right_min # None

\* C4: an index returned as a right rim is a local maximum of the
\* smoothed series within radius 2.
C4_RightRimIsLocalMax ==
    pc = "SEARCH_LEFT_RIM" => LocalMaxRadius2(right_rim_idx)

\* C5: an index returned as a right rim has a handle with an interior trough
\* at least min_handle_depth below the rim.
C5_HandleShowsPullback ==
    pc = "SEARCH_LEFT_RIM" =>
        /\ right_rim_idx + 1 <= Len(smoothed) - 2
        /\ LET ceiling == Iloc(smoothed, right_rim_idx)
               trough == Iloc(smoothed, FirstMinPos(right_rim_idx + 1, Len(smoothed) - 2))
           IN (ceiling - trough) * 40 >= ceiling

\* C6: no interior point of a cup the Validator accepted exceeds
\* min(left rim, right rim) * (1 + max_cup_peak_above_rim).
C6_NoInteriorPointAboveRim ==
    \A k \in 1..Len(handed) :
        handed[k].pattern_data.is_valid =>
            LET l == handed[k].left_rim_idx
                r == handed[k].right_rim_idx
                ceiling == IF Iloc(smoothed, l) < Iloc(smoothed, r)
                           THEN Iloc(smoothed, l) ELSE Iloc(smoothed, r)
            IN \A j \in (l + 1)..(r - 1) : Iloc(smoothed, j) * 40 <= ceiling * 41

\* The verdict of validate_left_rim on a left value and a right value in a
\* call whose Parameter Selector chose `window` (the window is no argument of it)
AcceptsInTier(window, left_val, right_val) ==
    validate_left_rim(<<left_val, right_val>>, 1, 0)
\* Two tiers whose tolerance bands differ accept different left values
BandDiffers(w1, w2) ==
    \E left_val \in 900..1100 :
        AcceptsInTier(w1, left_val, 1000) # AcceptsInTier(w2, left_val, 1000)
\* C7: the tolerance band is fixed by the volatility tier: the
\* band of this call differs from the band of a call in any other tier.
C7_BandFixedByTier ==
    smoothing_window # None =>
        \A w \in {WindowLow, WindowMedium, WindowHigh} \ {smoothing_window} :
            BandDiffers(smoothing_window, w)

\* C8 (as claimed): after NOT_DETECTED the result carries no trough of a
\* rejected pair.
C8_NoMetadataOfRejectedPair ==
    pc = "NOT_DETECTED" =>
        result_info.left_min = None /\ result_info.right_min = None
\* C8 (amended): the Validator returns the troughs with every answer, and
\* after NOT_DETECTED the result carries the left rim and the troughs of the
\* last pair handed to the Validator, a rejected one; they are None only when
\* no pair was handed to it.
C8_MetadataOfLastRejectedPair ==
    pc = "NOT_DETECTED" =>
        IF handed = <<>>
        THEN /\ result_info.left_rim = None
             /\ result_info.left_min = None
             /\ result_info.right_min = None
        ELSE LET e == handed[Len(handed)]
             IN /\ ~e.pattern_data.is_valid
                /\ result_info.left_rim = Iloc(timestamps, e.left_rim_idx)
                /\ result_info.left_min =
                      Iloc(timestamps, FirstMinPos(e.left_rim_idx, e.right_rim_idx))
                /\ result_info.right_min =
                      Iloc(timestamps, FirstMinPos(e.right_rim_idx, Len(smoothed) - 1))
C8_Witness ==
    /\ pc = "NOT_DETECTED"
    /\ handed # <<>>
    /\ ~handed[Len(handed)].pattern_data.is_valid
    /\ result_info.left_min # None
    /\ result_info.right_min # None

\* C9: a constant series and a strictly increasing series of a valid length
\* are never DETECTED, and no pair of theirs passes the Validator.
C9_NoFalsePositive ==
    (Len(prices) >= MinSamples /\ (IsConstant(prices) \/ IsStrictlyIncreasing(prices))) =>
        /\ pc # "DETECTED"
        /\ ~result_info.pattern_detected
        /\ \A k \in 1..Len(handed) : ~handed[k].pattern_data.is_valid
\* A strictly increasing series whose right rim at len - 2 (no interior handle
\* sample) was accepted and whose left rims went to the Validator
C9_Witness ==
    /\ IsStrictlyIncreasing(prices)
    /\ pc = "NOT_DETECTED"
    /\ result_info.right_rim = Iloc(timestamps, Len(prices) - 2)
    /\ handed # <<>>

\* C10: a frame with no rows, with fewer than MinSamples rows or with no price
\* column is rejected before the window is chosen and before any smoothing or
\* scanning; it never reaches a verdict.
C10_InvalidInputRaises ==
    (Len(timestamps) < MinSamples \/ ~has_price) =>
        /\ pc \in {"start", "raised"}
        /\ smoothing_window = None
        /\ smoothed = <<>>
        /\ iterations = 0
        /\ result_info = EmptyResult
C10_Witness ==
    /\ pc = "raised"
    /\ has_price
    /\ Len(prices) = 4

\* C11 (as claimed): on the 100-sample scenario with its handle trough at 134
\* the call returns DETECTED with the right rim near index 60, the left rim at
\* index 0-5, the cup trough near index 50 and the handle trough near index 68.
C11_ScenarioDetected ==
    (prices = Scenario(134) /\ pc \in Terminal) =>
        /\ pc = "DETECTED"
        /\ PosOf(result_info.right_rim) \in 58..62
        /\ PosOf(result_info.left_rim) \in 0..5
        /\ PosOf(result_info.left_min) \in 48..52
        /\ PosOf(result_info.right_min) \in 66..70
\* C11 (amended): on the 100-sample scenario, whatever the depth of its handle,
\* the call never returns DETECTED: the index len - 2 = 98 is accepted as the
\* first right rim, and no pair handed to the Validator passes it.
C11_ScenarioNotDetected ==
    prices \in ScenarioSeries =>
        /\ pc # "DETECTED"
        /\ ~result_info.pattern_detected
        /\ iterations = 1 => right_rim_idx \in {None, Len(prices) - 2}
        /\ \A k \in 1..Len(handed) : ~handed[k].pattern_data.is_valid
C11_Witness ==
    /\ prices = Scenario(134)
    /\ pc = "NOT_DETECTED"
    /\ handed # <<>>
    /\ result_info.right_rim = Iloc(timestamps, 98)

\* C17: an index accepted as a right rim has a handle whose length, divided by
\* the length of the series, lies within [handle_width_min_ratio_total,
\* handle_width_max_ratio_total].
C17_HandleWidthWithinBand ==
    pc = "SEARCH_LEFT_RIM" =>
        RatioIn(Len(smoothed) - right_rim_idx, Len(smoothed),
                handle_width_min_ratio_total, handle_width_max_ratio_total)

IsStrictlyDecreasing(p) == \A i \in 1..(Len(p) - 1) : p[i] > p[i + 1]
\* C18: the smoothed form of a strictly increasing series never falls from one
\* position to the next, that of a strictly decreasing series never rises, for
\* each of the windows 5, 7 and 10 and at every position, the clipped windows
\* at both ends included; the output has one value per input sample.
C18_SmoothingKeepsDirection ==
    pc = "smooth_done" =>
        /\ Len(smoothed) = Len(prices)
        /\ IsStrictlyIncreasing(prices) =>
              \A i \in 1..(Len(smoothed) - 1) : smoothed[i] <= smoothed[i + 1]
        /\ IsStrictlyDecreasing(prices) =>
              \A i \in 1..(Len(smoothed) - 1) : smoothed[i] >= smoothed[i + 1]
\* A falling series longer than the widest window, smoothed with it, whose
\* first and last samples were changed by the clipped windows
C18_Witness ==
    /\ pc = "smooth_done"
    /\ smoothing_window = WindowHigh
    /\ Len(prices) > WindowHigh
    /\ IsStrictlyDecreasing(prices)
    /\ smoothed[1] # prices[1] * Scale(WindowHigh)
    /\ smoothed[Len(prices)] # prices[Len(prices)] * Scale(WindowHigh)

\* The two strings differ in letter case only
SameLetters(a, b) ==
    /\ Len(a) = Len(b)
    /\ \A i \in 1..Len(a) :
          \/ a[i] = b[i]
          \/ \E j \in 1..Len(UpperCase) :
                {a[i], b[i]} = {UpperCase[j], LowerCase[j]}
\* The ticker symbols the company field of the request names, as a symbol or
\* as a company name, in any letter case
NamedSymbols ==
    {STOCK_SYMBOLS[i].symbol : i \in
        {j \in 1..Len(STOCK_SYMBOLS) :
            \/ SameLetters(request.company, STOCK_SYMBOLS[j].symbol)
            \/ SameLetters(request.company, STOCK_SYMBOLS[j].name)}}
\* C16 (as claimed): a request naming a symbol or company of STOCK_SYMBOLS in
\* any letter case runs detection on the rows of exactly that symbol; any
\* other request is answered with HTTP 400 and detection is not invoked.
C16_KnownNameRunsDetection ==
    response # Pending =>
        IF NamedSymbols # {}
        THEN /\ detection # NotInvoked
             /\ NamedSymbols = {detection.symbol}
        ELSE response.status = 400 /\ detection = NotInvoked
\* C16 (amended): the same for a request whose include_plot is true or false;
\* a request whose include_plot is null is answered with HTTP 400 and
\* detection is not invoked, whatever its company field.
C16_NameResolutionRoundTrips ==
    response # Pending =>
        IF NamedSymbols # {} /\ request.include_plot \in {"True", "False"}
        THEN /\ detection # NotInvoked
             /\ NamedSymbols = {detection.symbol}
             /\ get_symbol(detection.company) = detection.symbol
             /\ response.status = 200 => response.company = request.company
        ELSE response.status = 400 /\ detection = NotInvoked
\* A company name in mixed case that is neither its canonical nor its lower
\* case spelling, resolved to its symbol and answered with a verdict
C16_Witness ==
    /\ response # Pending
    /\ response.status = 200
    /\ request.company = <<"m", "I", "c", "R", "o", "S", "o", "F", "t">>
    /\ detection.symbol = <<"M", "S", "F", "T">>

\* C12: a detection call only reads: the step in which detect_cup_and_handle
\* gets its rows triggers no price fetch and leaves the frame in memory and
\* the CSV file as they were, whatever the state of the store.
C12_DetectionOnlyReads ==
    [][last_call'.op = "get_price_data" =>
          /\ ~last_call'.fetched
          /\ data' = data
          /\ data_file' = data_file]_vars

\* C13: after fetch_and_store_stock_prices the store holds one row (fetch
\* time, ticker, price) for every ticker whose price was fetched, and the call
\* did not raise.
C13_FetchedPricesAreStored ==
    last_call.op = "fetch_and_store_stock_prices" =>
        /\ last_call.raised = "none"
        /\ \A k \in 1..Len(last_call.rows) :
              \E j \in 1..Len(data) : CsvRows(data)[j] = last_call.rows[k]

\* C15: after any sequence of calls on the store, every row of the frame has
\* a timestamp no older than the cutoff of the last trim (the time of that
\* trim less DATA_RETENTION_DAYS), and no row that trim dropped was at or
\* after its cutoff.
C15_RetentionInvariant ==
    /\ \A k \in 1..Len(data) : data[k].timestamp >= last_trim.cutoff_time
    /\ \A k \in 1..Len(last_trim.removed) :
          last_trim.removed[k].timestamp < last_trim.cutoff_time
    /\ last_call.op \in {"store_prices_and_save_file", "delete_old_prices",
                          "load_existing_data_if_available"} =>
          last_trim.cutoff_time = last_call.now - DATA_RETENTION_DAYS * TicksPerDay
\* A store call whose trim dropped rows and kept a row exactly at the cutoff
C15_Witness ==
    /\ last_call.op = "store_prices_and_save_file"
    /\ last_call.rows # <<>>
    /\ last_trim.removed # <<>>
    /\ \E k \in 1..Len(data) : data[k].timestamp = last_trim.cutoff_time

\* The timestamps of the rows of one symbol, in the order of the rows
TimestampsOf(rows, symbol) ==
    LET own == SelectSeq(rows, LAMBDA r : r.symbol = symbol)
    IN [k \in 1..Len(own) |-> own[k].timestamp]
\* C20: after any sequence of calls on the store, the rows of each symbol lie
\* in the frame in strictly increasing timestamp order, and the rows
\* get_prices returns for a symbol are rows of that symbol alone in strictly
\* increasing timestamp order.
C20_RowsStrictlyTimeOrdered ==
    /\ \A k \in 1..Len(Tickers) : IsStrictlyIncreasing(TimestampsOf(data, Tickers[k]))
    /\ (last_call.op = "get_price_data" /\ last_call.raised = "none") =>
          \E k \in 1..Len(Tickers) :
              /\ \A j \in 1..Len(last_call.rows) : last_call.rows[j].symbol = Tickers[k]
              /\ IsStrictlyIncreasing(TimestampsOf(last_call.rows, Tickers[k]))
\* A detection call that got rows of the loaded file followed by rows stored
\* since, after a trim dropped rows
C20_Witness ==
    /\ last_call.op = "get_price_data"
    /\ last_call.raised = "none"
    /\ Len(last_call.rows) >= 3
    /\ last_call.rows[1].timestamp < StartClock
    /\ last_call.rows[Len(last_call.rows)].timestamp > StartClock
    /\ last_trim.removed # <<>>

\* The slot lies on a weekday between 09:30 and 16:00 of the Eastern wall clock
FiringInWindow(slot) ==
    LET day == slot \div SlotsPerDay
        minute == (slot % SlotsPerDay) * SAMPLE_INTERVAL_MINUTES
    IN day < 5 /\ 9 * 60 + 30 <= minute /\ minute <= 16 * 60
\* C14: the scheduled job fetches only when its firing time, in US Eastern
\* time, is on a weekday between 09:30 and 16:00; a firing outside that
\* window makes no fetch and leaves the store and the file as they were.
C14_FetchOnlyInTradingHours ==
    [][/\ job'.fetched => FiringInWindow(job'.slot)
       /\ ~FiringInWindow(job'.slot) =>
             /\ ~job'.fetched
             /\ data' = data /\ data_file' = data_file
             /\ last_call' = last_call]_vars
\* A Saturday 10:00 firing that fetched nothing, the last fetch being the one
\* the job made on Friday at 16:00 sharp, standard time
C14_Witness ==
    /\ job.slot = 5 * SlotsPerDay + 10 * (60 \div SAMPLE_INTERVAL_MINUTES)
    /\ ~job.fetched
    /\ job.utc_offset = 5
    /\ last_call.op = "fetch_and_store_stock_prices"
    /\ last_call.now = StartClock + 4 * TicksPerDay

\* C19: a get_prices call that reached its return statement, interleaved at
\* any point with a running store_prices_and_save_file, returns the rows of
\* one single version of the frame it read: the rows of that version for the
\* requested symbol within [from_ts, to_ts], and it does not raise.
C19_RowsOfOneVersion ==
    (getter.pc = "done" /\ getter.reads # <<>>) =>
        /\ getter.raised = "none"
        /\ \E k \in 1..Len(getter.reads) :
              getter.rows = CsvRows(Selected(getter.reads[k], getter.symbol,
                                             getter.from_ts, getter.to_ts))
        /\ \A k \in 1..Len(getter.rows) :
              /\ getter.rows[k].symbol = getter.symbol
              /\ getter.rows[k].timestamp >= getter.from_ts
              /\ getter.rows[k].timestamp <= getter.to_ts

\* The calls that end by writing the frame to the CSV file
SavingCalls == {"store_prices_and_save_file", "load_existing_data_if_available"}
====
